---- MODULE Spec2Model ----
(***************************************************************************)
(* The retryable-ticket registry of package retryables: RetryableState     *)
(* (CreateRetryable, OpenRetryable, RetryableSizeBytes, DeleteRetryable,   *)
(* Keepalive, TryToReapOneRetryable) and the Retryable handles it returns  *)
(* (NumTries, SetNumTries, IncrementNumTries, Timeout, SetTimeout, ...,    *)
(* Equals), over the storage of package storage (slots, byte strings and a *)
(* FIFO queue of ids).                                                     *)
(*                                                                         *)
(* Integers are scaled: a uint64 has Uint64Bits bits, an address           *)
(* AddressBits, a storage word (common.Hash) HashBits, with                *)
(* Uint64Bits < AddressBits < HashBits as 64 < 160 < 256.  Arithmetic on   *)
(* uint64 wraps modulo 2^Uint64Bits as Go's does modulo 2^64.              *)
(***************************************************************************)
EXTENDS Integers, Sequences, FiniteSets, TLC

\* ------------------------------------------------------------------ bounds

\* number of ticket ids
MaxIds == 2
\* number of ticket ids used where callers hold on to handles
MaxHandleIds == 1
\* number of Retryable handles a caller holds on to at a time
MaxHandles == 2
\* width of the scaled uint64
Uint64Bits == 3
\* IncrementNumTries is applied while the count is below this
MaxTries == 2

Uint64Mod == 2 ^ Uint64Bits
AddressBits == Uint64Bits + 1
AddressMod == 2 ^ AddressBits
HashBits == Uint64Bits + 2
HashMod == 2 ^ HashBits
MaxUint64 == Uint64Mod - 1
HalfUint64 == 2 ^ (Uint64Bits - 1)

Ids == 1 .. MaxIds
HandleIds == 1 .. MaxHandleIds
HandleSlots == 1 .. MaxHandles

\* a nil pointer (*uint64, *common.Address, *big.Int, *Retryable)
Nil == -1
\* a nil []byte
NilBytes == << -1 >>

\* ------------------------------------------------------------------ inputs

Nows == {0, MaxUint64}
TimeoutInputs == {1, 2}
FromInputs == {1}
ToInputs == {Nil, 2}
CallvalueInputs == {0, 3, HashMod + 3}
BeneficiaryInputs == {AddressMod - 1}
CalldataInputs == {<< >>, <<170, 187, 204>>}
LimitInputs == {2}
AddInputs == {1, MaxUint64}
NumTriesInputs == {0, MaxTries}
SetTimeoutInputs == {0, 1, HalfUint64 + 1}

\* --------------------------------------------------------- storage layout

numTriesOffset == 0
timeoutOffset == 1
fromOffset == 2
toOffset == 3
callvalueOffset == 4
beneficiaryOffset == 5

Offsets == numTriesOffset .. beneficiaryOffset

VARIABLES
    slots,       \* slots[id][offset]: the word at offset of the sub-storage rooted at id
    calldataSto, \* calldataSto[id]: the bytes of the sub-storage calldataKey under id
    timeoutQueue,\* the queue at timeoutQueueKey: a sequence of ids, head first
    used,        \* the ids CreateRetryable was called with
    handles,     \* handles[h]: a *Retryable a caller holds, or NilHandle
    crashed,     \* a panic has unwound the call in progress
    last         \* the last operation called and what it returned

VARIABLES
    machine,     \* what createJitMachine returned, and whether close was called
    process,     \* the child prover process and the goroutine running it
    fatalErrChan,\* the errors sent on fatalErrChan
    stdin,       \* the lines written to the child's stdin
    sess,        \* sess[s]: the locals of the s-th call of prove
    childRead,   \* the number of stdin lines the child has read
    peer         \* peer[s]: the child's end of the connection of session s

retryableVars == <<slots, calldataSto, timeoutQueue, used, handles, crashed, last>>

jitVars == <<machine, process, fatalErrChan, stdin, sess, childRead, peer>>

vars == <<retryableVars, jitVars>>

\* ------------------------------------------------------------ conversions

\* int64(x) of a uint64 x: two's complement reinterpretation
Int64(x) == IF x >= HalfUint64 THEN x - Uint64Mod ELSE x

\* util.IntToHash(val int64) is common.BigToHash(big.NewInt(val)): the
\* right-aligned big-endian bytes of the magnitude of val
IntToHash(val) == IF val < 0 THEN 0 - val ELSE val

\* util.UintToHash(val uint64): right-aligned big-endian bytes of val
UintToHash(val) == val

\* common.Hash.Big().Uint64(): the low 64 bits of the word
HashToUint64(word) == word % Uint64Mod

\* common.BytesToHash(addr.Bytes()): the 20 bytes, left-padded with zeros
AddressToHash(addr) == addr

\* common.BytesToAddress(hash.Bytes()): the last 20 bytes of the word
HashToAddress(word) == word % AddressMod

\* common.BigToHash(b) of a non-negative b: the last 32 bytes of b
BigToHash(b) == b % HashMod

\* common.Hash.Big()
HashToBig(word) == word

\* uint64 addition
AddUint64(a, b) == (a + b) % Uint64Mod

\* ---------------------------------------------------------------- storage

ZeroSlots == [o \in Offsets |-> 0]

\* Storage.SetByUint64 on the sub-storage rooted at id
SetByUint64(sl, id, offset, word) == [sl EXCEPT ![id][offset] = word]

\* Storage.SetUint64ByUint64 on the sub-storage rooted at id
SetUint64ByUint64(sl, id, offset, val) == SetByUint64(sl, id, offset, UintToHash(val))

\* Storage.GetByUint64 on the sub-storage rooted at id
GetByUint64(sl, id, offset) == sl[id][offset]

\* Storage.WriteBytes / GetBytes / GetBytesSize / DeleteBytes on
\* OpenSubStorage(calldataKey) of the sub-storage rooted at id
WriteBytes(cd, id, data) == [cd EXCEPT ![id] = IF data = NilBytes THEN << >> ELSE data]
GetBytes(cd, id) == cd[id]
GetBytesSize(cd, id) == Len(cd[id])
DeleteBytes(cd, id) == [cd EXCEPT ![id] = << >>]

\* Queue.IsEmpty / Put / Get (Get returns the head and removes it)
QueueIsEmpty(q) == q = << >>
QueuePut(q, id) == Append(q, id)
QueuePeek(q) == Head(q)
QueueGet(q) == Tail(q)

\* ---------------------------------------------------------------- handles

\* &Retryable{id: id, backingStorage: sto}: every cached field is nil
LazyHandle(id) ==
    [id |-> id, numTries |-> Nil, timeout |-> Nil, from |-> Nil, to |-> Nil,
     callvalue |-> Nil, beneficiary |-> Nil, calldata |-> NilBytes]

\* a nil *Retryable
NilHandle == LazyHandle(Nil)

\* the handle CreateRetryable returns: every field cached from the arguments
CachedHandle(id, timeout, from, to, callvalue, beneficiary, calldata) ==
    [id |-> id, numTries |-> 0, timeout |-> timeout, from |-> from, to |-> to,
     callvalue |-> callvalue, beneficiary |-> beneficiary, calldata |-> calldata]

\* ------------------------------------------------------------- operations

\* mutant: OpenRetryable also returns nil for a retryable whose timeout has passed
OpenRetryable_ChecksExpiry(sl, id, currentTimestamp) ==
    IF \/ GetByUint64(sl, id, timeoutOffset) = 0
       \/ HashToUint64(GetByUint64(sl, id, timeoutOffset)) <= currentTimestamp
    THEN NilHandle
    ELSE LazyHandle(id)

\* RetryableState.OpenRetryable: nil when the timeout slot is the zero word
OpenRetryable(sl, id, currentTimestamp) ==
    IF GetByUint64(sl, id, timeoutOffset) = 0
    THEN NilHandle
    ELSE LazyHandle(id)

\* mutant: the head is read without being removed before it is put back
TryToReapOneRetryable_Peeks(q, sl, currentTimestamp) ==
    IF ~QueueIsEmpty(q)
    THEN LET id == QueuePeek(q)
         IN IF OpenRetryable(sl, id, currentTimestamp) # NilHandle
            THEN QueuePut(q, id)
            ELSE QueueGet(q)
    ELSE q

\* mutant: the head is removed and never put back
TryToReapOneRetryable_NeverPutsBack(q, sl, currentTimestamp) ==
    IF ~QueueIsEmpty(q) THEN QueueGet(q) ELSE q

\* mutant: a head whose timeout has passed is removed like an absent one
TryToReapOneRetryable_DropsExpired(q, sl, currentTimestamp) ==
    IF ~QueueIsEmpty(q)
    THEN IF sl[QueuePeek(q)][timeoutOffset] >= currentTimestamp
              /\ sl[QueuePeek(q)][timeoutOffset] # 0
         THEN QueuePut(QueueGet(q), QueuePeek(q))
         ELSE QueueGet(q)
    ELSE q

\* mutant: the head is put back whether or not it still exists
TryToReapOneRetryable_KeepsAbsent(q, sl, currentTimestamp) ==
    IF ~QueueIsEmpty(q) THEN QueuePut(QueueGet(q), QueuePeek(q)) ELSE q

\* RetryableState.TryToReapOneRetryable: the queue it leaves
TryToReapOneRetryable(q, sl, currentTimestamp) ==
    IF ~QueueIsEmpty(q)
    THEN LET id == QueuePeek(q)
             q1 == QueueGet(q)
         IN IF OpenRetryable(sl, id, currentTimestamp) # NilHandle
            THEN QueuePut(q1, id)
            ELSE q1
    ELSE q

\* RetryableState.CreateRetryable, lines 199-204: the six scalar slots it writes
CreateSlots(sl, id, timeout, from, to, callvalue, beneficiary) ==
    LET s1 == SetByUint64(sl, id, numTriesOffset, 0)
        s2 == SetByUint64(s1, id, timeoutOffset, IntToHash(Int64(timeout)))
        s3 == SetByUint64(s2, id, fromOffset, AddressToHash(from))
        s4 == SetByUint64(s3, id, toOffset, AddressToHash(to))
        s5 == SetByUint64(s4, id, callvalueOffset, BigToHash(callvalue))
    IN SetByUint64(s5, id, beneficiaryOffset, AddressToHash(beneficiary))

\* RetryableState.CreateRetryable with to = nil: to.Bytes() dereferences the
\* nil pointer (Address.Bytes has a value receiver) and panics at line 202,
\* after the writes of lines 199-201
CreateSlotsBeforePanic(sl, id, timeout, from) ==
    LET s1 == SetByUint64(sl, id, numTriesOffset, 0)
        s2 == SetByUint64(s1, id, timeoutOffset, IntToHash(Int64(timeout)))
    IN SetByUint64(s2, id, fromOffset, AddressToHash(from))

\* mutant: CreateRetryable enqueues the id without the reap step
CreateQueue_NoReap(q, sl, currentTimestamp, id) ==
    QueuePut(q, id)

\* RetryableState.CreateRetryable, lines 185 and 208: the queue it leaves
CreateQueue(q, sl, currentTimestamp, id) ==
    QueuePut(TryToReapOneRetryable(q, sl, currentTimestamp), id)

\* mutant: the beneficiary slot is left as it was
DeleteSlots_KeepsBeneficiary(sl, id) ==
    LET s1 == SetByUint64(sl, id, numTriesOffset, 0)
        s2 == SetByUint64(s1, id, timeoutOffset, 0)
        s3 == SetByUint64(s2, id, fromOffset, 0)
        s4 == SetByUint64(s3, id, toOffset, 0)
    IN SetByUint64(s4, id, callvalueOffset, 0)

\* RetryableState.DeleteRetryable, lines 238-243: the six slots zeroed
DeleteSlots(sl, id) ==
    LET s1 == SetByUint64(sl, id, numTriesOffset, 0)
        s2 == SetByUint64(s1, id, timeoutOffset, 0)
        s3 == SetByUint64(s2, id, fromOffset, 0)
        s4 == SetByUint64(s3, id, toOffset, 0)
        s5 == SetByUint64(s4, id, callvalueOffset, 0)
    IN SetByUint64(s5, id, beneficiaryOffset, 0)

\* RetryableState.DeleteRetryable: what it returns and leaves in storage
DeleteRetryable(sl, cd, id) ==
    IF GetByUint64(sl, id, timeoutOffset) = 0
    THEN [ok |-> FALSE, slots |-> sl, calldata |-> cd]
    ELSE [ok |-> TRUE, slots |-> DeleteSlots(sl, id), calldata |-> DeleteBytes(cd, id)]

\* Retryable.NumTries: the cached value, read from storage when nil
NumTries(retryable, sl) ==
    IF retryable.numTries = Nil
    THEN HashToUint64(GetByUint64(sl, retryable.id, numTriesOffset))
    ELSE retryable.numTries

\* Retryable.Timeout: the cached value, read from storage when nil
Timeout(retryable, sl) ==
    IF retryable.timeout = Nil
    THEN HashToUint64(GetByUint64(sl, retryable.id, timeoutOffset))
    ELSE retryable.timeout

\* Retryable.From
From(retryable, sl) ==
    IF retryable.from = Nil
    THEN HashToAddress(GetByUint64(sl, retryable.id, fromOffset))
    ELSE retryable.from

\* Retryable.To: never nil once called on a handle whose to is nil
To(retryable, sl) ==
    IF retryable.to = Nil
    THEN HashToAddress(GetByUint64(sl, retryable.id, toOffset))
    ELSE retryable.to

\* Retryable.Callvalue
Callvalue(retryable, sl) ==
    IF retryable.callvalue = Nil
    THEN HashToBig(GetByUint64(sl, retryable.id, callvalueOffset))
    ELSE retryable.callvalue

\* Retryable.Beneficiary
Beneficiary(retryable, sl) ==
    IF retryable.beneficiary = Nil
    THEN HashToAddress(GetByUint64(sl, retryable.id, beneficiaryOffset))
    ELSE retryable.beneficiary

\* Retryable.Calldata
Calldata(retryable, cd) ==
    IF retryable.calldata = NilBytes
    THEN GetBytes(cd, retryable.id)
    ELSE retryable.calldata

\* Retryable.CalldataSize
CalldataSize(retryable, cd) ==
    IF retryable.calldata = NilBytes
    THEN GetBytesSize(cd, retryable.id)
    ELSE Len(retryable.calldata)

\* Retryable.Equals: the comparison of ids and of the six getters' values
Equals(retryable, other, sl, cd) ==
    /\ retryable.id = other.id
    /\ Timeout(retryable, sl) = Timeout(other, sl)
    /\ From(retryable, sl) = From(other, sl)
    /\ To(retryable, sl) = To(other, sl)
    /\ Callvalue(retryable, sl) = Callvalue(other, sl)
    /\ Beneficiary(retryable, sl) = Beneficiary(other, sl)
    /\ Calldata(retryable, cd) = Calldata(other, cd)

\* Retryable.SetTimeout: the slot it writes
SetTimeoutSlots(sl, retryable, timeout) ==
    SetByUint64(sl, retryable.id, timeoutOffset, IntToHash(Int64(timeout)))

\* mutant: the try count is written over the from slot
SetNumTriesSlots_AtFrom(sl, retryable, newNumTries) ==
    SetUint64ByUint64(sl, retryable.id, fromOffset, newNumTries)

\* Retryable.SetNumTries: the slot it writes
SetNumTriesSlots(sl, retryable, newNumTries) ==
    SetUint64ByUint64(sl, retryable.id, numTriesOffset, newNumTries)

\* mutant: the six scalar slots are not counted
RetryableSizeBytes_NoHeader(sl, cd, id, currentTime) ==
    LET retryable == OpenRetryable(sl, id, currentTime)
    IN IF retryable = NilHandle
       THEN 0
       ELSE CalldataSize(retryable, cd)

\* RetryableState.RetryableSizeBytes; the sum stays far below 2^64 for any
\* calldata that fits in memory and is not reduced modulo the scaled width
RetryableSizeBytes(sl, cd, id, currentTime) ==
    LET retryable == OpenRetryable(sl, id, currentTime)
    IN IF retryable = NilHandle
       THEN 0
       ELSE 6 * 32 + CalldataSize(retryable, cd)

\* RetryableState.Keepalive: what it returns and leaves in the slots
Keepalive(sl, ticketId, currentTimestamp, limitBeforeAdd, timeToAdd) ==
    LET retryable == OpenRetryable(sl, ticketId, currentTimestamp)
    IN IF retryable = NilHandle
       THEN [ok |-> FALSE, slots |-> sl]
       ELSE LET timeout == Timeout(retryable, sl)
            IN IF timeout > limitBeforeAdd
               THEN [ok |-> FALSE, slots |-> sl]
               ELSE [ok |-> TRUE,
                     slots |-> SetTimeoutSlots(sl, retryable, AddUint64(timeout, timeToAdd))]

\* Retryable.SetNumTries: the handle and the slots it leaves
SetNumTries(retryable, sl, newNumTries) ==
    [retryable |-> [retryable EXCEPT !.numTries = newNumTries],
     slots |-> SetNumTriesSlots(sl, retryable, newNumTries)]

\* Retryable.IncrementNumTries: what it returns, and the handle and slots it leaves
IncrementNumTries(retryable, sl) ==
    LET newNumTries == AddUint64(NumTries(retryable, sl), 1)
        r == SetNumTries(retryable, sl, newNumTries)
    IN [val |-> newNumTries, retryable |-> r.retryable, slots |-> r.slots]

\* Retryable.SetTimeout: the handle and the slots it leaves
SetTimeout(retryable, sl, timeout) ==
    [retryable |-> [retryable EXCEPT !.timeout = timeout],
     slots |-> SetTimeoutSlots(sl, retryable, timeout)]

\* ------------------------------------------------- the JIT host: its data

\* bound: the prove calls made on one JitMachine
MaxSessions == 2
\* bound: bytes of a uint64 on the wire (8 in the build)
Uint64Bytes == 2
\* bound: bytes of a common.Hash (32 in the build)
HashBytes == 2

Sessions == 1 .. MaxSessions

successByte == 0
failureByte == 1
anotherByte == 3
readyByte == 4

\* a hash all of whose bytes are b
HashOf(b) == [i \in 1 .. HashBytes |-> b]

RECURSIVE Pow256(_)
Pow256(n) == IF n = 0 THEN 1 ELSE 256 * Pow256(n - 1)

\* arbmath.UintToBytes: the big-endian bytes of a uint64
UintToBytes(value) ==
    [i \in 1 .. Uint64Bytes |-> (value \div Pow256(Uint64Bytes - i)) % 256]

\* mutant: the bytes are read least significant first
RECURSIVE LittleEndianUint64(_)
LittleEndianUint64(slice) ==
    IF slice = << >> THEN 0
    ELSE slice[1] + 256 * LittleEndianUint64(Tail(slice))

\* binary.BigEndian.Uint64
RECURSIVE BigEndianUint64(_)
BigEndianUint64(slice) ==
    IF slice = << >> THEN 0
    ELSE slice[1] * Pow256(Len(slice) - 1) + BigEndianUint64(Tail(slice))

\* validator.GoGlobalState
GoGlobalState(batch, posInBatch, blockHash, sendRoot) ==
    [Batch |-> batch, PosInBatch |-> posInBatch,
     BlockHash |-> blockHash, SendRoot |-> sendRoot]

ZeroGlobalState == GoGlobalState(0, 0, HashOf(0), HashOf(0))

\* mutant: nothing is on the ignore list
ignoreProveBlocks_Empty == << >>

\* the compiled-in ignore list: two of its entries, each hash by its first byte
ignoreProveBlocks ==
    (4083577 :> GoGlobalState(9178, 480, HashOf(218), HashOf(115)))
    @@ (4083578 :> GoGlobalState(9178, 481, HashOf(70), HashOf(115)))

\* the preimages of a ValidationInput: a map from kind to a map from hash to
\* preimage; kind 0 has two entries and kind 1 none
TwoKinds ==
    (0 :> ((HashOf(17) :> <<1>>) @@ (HashOf(34) :> << >>)))
    @@ (1 :> << >>)

BatchInfoInputs ==
    { << >>,
      << [Number |-> 1, Data |-> <<1, 2, 3>>], [Number |-> 2, Data |-> << >>] >> }

PreimagesInputs == { << >>, TwoKinds }

\* the ValidationInputs prove is called with
EntryInputs ==
    [Id : {4083577, 1},
     StartState : {GoGlobalState(7, 3, HashOf(170), HashOf(187))},
     BatchInfo : BatchInfoInputs,
     HasDelayedMsg : BOOLEAN,
     DelayedMsgNr : {5},
     DelayedMsg : {<<9>>},
     Preimages : PreimagesInputs]

\* the smallest request: no batch, no delayed message, no preimage
PlainEntries ==
    {entry \in EntryInputs :
        /\ entry.Id = 1
        /\ entry.BatchInfo = << >>
        /\ ~entry.HasDelayedMsg
        /\ entry.Preimages = << >>}

Perms(S) ==
    {p \in [1 .. Cardinality(S) -> S] :
        \A i, j \in 1 .. Cardinality(S) : i # j => p[i] # p[j]}

\* the orders in which the two range loops over entry.Preimages can run: the
\* order of the kinds, and for each kind the order of its hashes
RangeOrders(entry) ==
    {order \in [kinds : Perms(DOMAIN entry.Preimages),
                hashes : [DOMAIN entry.Preimages ->
                            UNION {Perms(DOMAIN entry.Preimages[ty]) :
                                     ty \in DOMAIN entry.Preimages}]] :
        \A ty \in DOMAIN entry.Preimages :
            order.hashes[ty] \in Perms(DOMAIN entry.Preimages[ty])}

NoOrder == [kinds |-> << >>, hashes |-> << >>]

\* writeUint8: the one writeExact call it makes
WriteUint8(data) == << <<data>> >>

\* writeUint64: the one writeExact call it makes
WriteUint64(data) == << UintToBytes(data) >>

\* writeBytes: the two writeExact calls it makes
WriteBytesCalls(data) == WriteUint64(Len(data)) \o <<data>>

\* send global state
SendGlobalState(entry) ==
    WriteUint64(entry.StartState.Batch)
    \o WriteUint64(entry.StartState.PosInBatch)
    \o <<entry.StartState.BlockHash>>
    \o <<entry.StartState.SendRoot>>

\* mutant: the batches are sent last to first
RECURSIVE SendBatches_Reversed(_)
SendBatches_Reversed(batches) ==
    IF batches = << >> THEN << >>
    ELSE SendBatches_Reversed(Tail(batches))
         \o WriteUint8(anotherByte)
         \o WriteUint64(Head(batches).Number)
         \o WriteBytesCalls(Head(batches).Data)

\* send inbox: the loop over entry.BatchInfo
RECURSIVE SendBatches(_)
SendBatches(batches) ==
    IF batches = << >> THEN << >>
    ELSE WriteUint8(anotherByte)
         \o WriteUint64(Head(batches).Number)
         \o WriteBytesCalls(Head(batches).Data)
         \o SendBatches(Tail(batches))

\* send delayed inbox
SendDelayed(entry) ==
    IF entry.HasDelayedMsg
    THEN WriteUint8(anotherByte)
         \o WriteUint64(entry.DelayedMsgNr)
         \o WriteBytesCalls(entry.DelayedMsg)
    ELSE << >>

\* the inner loop: the hashes of one kind, in the order the range takes
RECURSIVE SendPreimagesOfKind(_, _)
SendPreimagesOfKind(preimages, hashes) ==
    IF hashes = << >> THEN << >>
    ELSE <<Head(hashes)>>
         \o WriteBytesCalls(preimages[Head(hashes)])
         \o SendPreimagesOfKind(preimages, Tail(hashes))

\* the outer loop: the kinds, in the order the range takes
RECURSIVE SendKinds(_, _, _)
SendKinds(preimageTypes, kinds, hashes) ==
    IF kinds = << >> THEN << >>
    ELSE WriteUint8(Head(kinds))
         \o WriteUint64(Cardinality(DOMAIN preimageTypes[Head(kinds)]))
         \o SendPreimagesOfKind(preimageTypes[Head(kinds)], hashes[Head(kinds)])
         \o SendKinds(preimageTypes, Tail(kinds), hashes)

\* send known preimages
SendPreimages(entry, order) ==
    WriteUint64(Cardinality(DOMAIN entry.Preimages))
    \o SendKinds(entry.Preimages, order.kinds, order.hashes)

\* the writeExact calls of prove, in program order, each with its data
RequestWrites(entry, order) ==
    SendGlobalState(entry)
    \o SendBatches(entry.BatchInfo)
    \o WriteUint8(successByte)
    \o SendDelayed(entry)
    \o WriteUint8(successByte)
    \o SendPreimages(entry, order)
    \o WriteUint8(readyByte)

\* the bytes of a sequence of writes, as the connection carries them
RECURSIVE Flatten(_)
Flatten(writes) ==
    IF writes = << >> THEN << >> ELSE Head(writes) \o Flatten(Tail(writes))

\* an error value: the call that produced it, and for errors.New its text
Err(kind) == [kind |-> kind, message |-> << >>, text |-> ""]

\* the nil error
NoError == Err("nil")

\* errors.New(string(message)), the message being the bytes the child sent
ProverFailure(message) == [kind |-> "errors.New", message |-> message, text |-> ""]

\* errors.New("inter-process communication failure")
IpcFailure ==
    [kind |-> "errors.New", message |-> << >>,
     text |-> "inter-process communication failure"]

\* the locals of a prove call that has not started
IdleSession ==
    [pc |-> "idle",
     entry |-> CHOOSE entry \in PlainEntries : TRUE,
     order |-> NoOrder,
     ctxDone |-> FALSE,       \* ctx.Done() is closed
     cancelledAt |-> "",      \* where prove was when the caller cancelled ctxIn
     cancelledBlocked |-> FALSE, \* whether the call it was in was blocked then
     tcp |-> "none",          \* the listener: none, open, closed
     tcpCloser |-> "none",    \* the goroutine closing it: none, waiting, done
     conn |-> "none",         \* the connection: none, open, closed
     connCloser |-> "none",   \* the goroutine closing it: none, waiting, done
     sent |-> << >>,          \* the data of the writeExact calls that returned nil
     rpos |-> 0,              \* the bytes of the response consumed
     kind |-> -1,             \* the lead byte read
     length |-> 0,            \* the length read in the failure frame
     state |-> ZeroGlobalState,
     err |-> NoError,
     binds |-> 0,             \* the calls of net.ListenTCP that returned a listener
     lines |-> << >>,         \* the lines this call wrote to the child's stdin
     accepts |-> 0]           \* the calls of tcp.Accept that returned a connection

\* the child's end of a session: no connection made
NoPeer == [dialed |-> FALSE, responded |-> FALSE, resp |-> << >>]

InitJitMachine ==
    /\ machine = [made |-> "none", closed |-> FALSE, invocation |-> << >>]
    /\ process = [state |-> "none", status |-> 0, returned |-> FALSE, starts |-> 0]
    /\ fatalErrChan = << >>
    /\ stdin = << >>
    /\ sess = [s \in Sessions |-> IdleSession]
    /\ childRead = 0
    /\ peer = [s \in Sessions |-> NoPeer]

\* ------------------------------------------------------- redeem attempt ids

\* ticket ids (hashes of HashBytes bytes) and try sequence numbers (below
\* 256^Uint64Bytes) that TxIdForRedeemAttempt is applied to
TicketIdInputs == [1 .. HashBytes -> {0, 1, 255}]
TrySequenceInputs ==
    {lo + Pow256(Uint64Bytes - 1) * hi : lo \in {0, 1, 2, 255}, hi \in {0, 1, 2, 255}}

LittleEndianPutUint64_BigEndian(v) == UintToBytes(v)

\* binary.LittleEndian.PutUint64(asBytes, v): the bytes of v, lowest first
LittleEndianPutUint64(v) ==
    [i \in 1 .. Uint64Bytes |-> (v \div Pow256(i - 1)) % 256]

\* crypto.Keccak256Hash(data...): the digest of the byte string made of the
\* slices in the order given; the digest is kept as the string it was fed
Keccak256Hash(data) == [keccak256 |-> Flatten(data)]

\* TxIdForRedeemAttempt(ticketId, trySequenceNum)
TxIdForRedeemAttempt(ticketId, trySequenceNum) ==
    LET asBytes == LittleEndianPutUint64(trySequenceNum)
    IN Keccak256Hash(<<ticketId, <<0>>, asBytes>>)

\* ------------------------------------------------------------------ state

\* a registry specification has no JitMachine and no call of prove in it
NoJitMachine ==
    /\ machine = [made |-> "none", closed |-> FALSE, invocation |-> << >>]
    /\ process = [state |-> "none", status |-> 0, returned |-> FALSE, starts |-> 0]
    /\ fatalErrChan = << >>
    /\ stdin = << >>
    /\ sess = << >>
    /\ childRead = 0
    /\ peer = << >>

InitRetryableState ==
    /\ slots = [id \in Ids |-> ZeroSlots]
    /\ calldataSto = [id \in Ids |-> << >>]
    /\ timeoutQueue = << >>
    /\ used = {}
    /\ handles = [h \in HandleSlots |-> NilHandle]
    /\ crashed = FALSE
    /\ last = [op |-> "init", id |-> 0, ok |-> TRUE, val |-> 0, lim |-> 0, add |-> 0]

\* the registry, opened on empty storage
Init == InitRetryableState /\ NoJitMachine

\* the JIT host before createJitMachine, the registry left untouched
InitJit == InitRetryableState /\ InitJitMachine

Result(op, id, ok, val) ==
    [op |-> op, id |-> id, ok |-> ok, val |-> val, lim |-> 0, add |-> 0]

\* the caller keeps the returned pointer in variable h, or drops it (h = 0)
Keep(h, retryable) ==
    IF h = 0 THEN handles ELSE [handles EXCEPT ![h] = retryable]

\* CreateRetryable(currentTimestamp, id, ...) called with an id never used
\* before, the handle kept in one of H; last records the length the queue had
\* when it was called
CreateCall(now, id, timeout, from, to, callvalue, beneficiary, calldata, h) ==
    /\ used' = used \cup {id}
    /\ IF to = Nil
       THEN /\ timeoutQueue' = TryToReapOneRetryable(timeoutQueue, slots, now)
            /\ slots' = CreateSlotsBeforePanic(slots, id, timeout, from)
            /\ crashed' = TRUE
            /\ last' = Result("CreateRetryable", id, FALSE, Len(timeoutQueue))
            /\ UNCHANGED <<calldataSto, handles>>
       ELSE /\ slots' = CreateSlots(slots, id, timeout, from, to, callvalue, beneficiary)
            /\ calldataSto' = WriteBytes(calldataSto, id, calldata)
            /\ timeoutQueue' = CreateQueue(timeoutQueue, slots, now, id)
            /\ handles' = Keep(h, CachedHandle(id, timeout, from, to, callvalue,
                                               beneficiary, calldata))
            /\ last' = Result("CreateRetryable", id, TRUE, Len(timeoutQueue))
            /\ UNCHANGED crashed

CreateAction(I, H) ==
    /\ ~crashed
    /\ UNCHANGED jitVars
    /\ \E id \in I \ used, now \in Nows, timeout \in TimeoutInputs, from \in FromInputs,
          to \in ToInputs, callvalue \in CallvalueInputs,
          beneficiary \in BeneficiaryInputs, calldata \in CalldataInputs, h \in H :
        CreateCall(now, id, timeout, from, to, callvalue, beneficiary, calldata, h)

\* OpenRetryable(id, currentTimestamp), the handle kept in one of H; last
\* records currentTimestamp
OpenAction(I, H) ==
    /\ ~crashed
    /\ UNCHANGED jitVars
    /\ \E id \in I, now \in Nows, h \in H :
        LET retryable == OpenRetryable(slots, id, now)
        IN /\ handles' = IF retryable = NilHandle THEN handles ELSE Keep(h, retryable)
           /\ last' = Result("OpenRetryable", id, retryable # NilHandle, now)
    /\ UNCHANGED <<slots, calldataSto, timeoutQueue, used, crashed>>

\* RetryableSizeBytes(id, currentTime)
SizeAction(I) ==
    /\ ~crashed
    /\ UNCHANGED jitVars
    /\ \E id \in I, now \in Nows :
        last' = Result("RetryableSizeBytes", id, TRUE,
                       RetryableSizeBytes(slots, calldataSto, id, now))
    /\ UNCHANGED <<slots, calldataSto, timeoutQueue, used, handles, crashed>>

\* DeleteRetryable(id)
DeleteAction(I) ==
    /\ ~crashed
    /\ UNCHANGED jitVars
    /\ \E id \in I :
        LET r == DeleteRetryable(slots, calldataSto, id)
        IN /\ slots' = r.slots
           /\ calldataSto' = r.calldata
           /\ last' = Result("DeleteRetryable", id, r.ok, 0)
    /\ UNCHANGED <<timeoutQueue, used, handles, crashed>>

\* Keepalive(ticketId, currentTimestamp, limitBeforeAdd, timeToAdd)
KeepaliveAction(I) ==
    /\ ~crashed
    /\ UNCHANGED jitVars
    /\ \E id \in I, now \in Nows, lim \in LimitInputs, add \in AddInputs :
        LET r == Keepalive(slots, id, now, lim, add)
        IN /\ slots' = r.slots
           /\ last' = [op |-> "Keepalive", id |-> id, ok |-> r.ok, val |-> 0,
                       lim |-> lim, add |-> add]
    /\ UNCHANGED <<calldataSto, timeoutQueue, used, handles, crashed>>

\* TryToReapOneRetryable(currentTimestamp); last records the id it took from
\* the queue (0 when the queue was empty) and whether it put it back
ReapAction ==
    /\ ~crashed
    /\ UNCHANGED jitVars
    /\ \E now \in Nows :
        /\ timeoutQueue' = TryToReapOneRetryable(timeoutQueue, slots, now)
        /\ last' = IF QueueIsEmpty(timeoutQueue)
                   THEN Result("TryToReapOneRetryable", 0, FALSE, 0)
                   ELSE Result("TryToReapOneRetryable", QueuePeek(timeoutQueue),
                               OpenRetryable(slots, QueuePeek(timeoutQueue), now) # NilHandle, 0)
    /\ UNCHANGED <<slots, calldataSto, used, handles, crashed>>

\* retryable.IncrementNumTries() on a handle the caller holds
IncrementAction(H) ==
    /\ ~crashed
    /\ UNCHANGED jitVars
    /\ \E h \in H :
        /\ handles[h] # NilHandle
        /\ NumTries(handles[h], slots) < MaxTries
        /\ LET r == IncrementNumTries(handles[h], slots)
           IN /\ handles' = [handles EXCEPT ![h] = r.retryable]
              /\ slots' = r.slots
              /\ last' = Result("IncrementNumTries", handles[h].id, TRUE, r.val)
    /\ UNCHANGED <<calldataSto, timeoutQueue, used, crashed>>

\* retryable.SetNumTries(newNumTries) on a handle the caller holds
SetNumTriesAction(H) ==
    /\ ~crashed
    /\ UNCHANGED jitVars
    /\ \E h \in H, newNumTries \in NumTriesInputs :
        /\ handles[h] # NilHandle
        /\ LET r == SetNumTries(handles[h], slots, newNumTries)
           IN /\ handles' = [handles EXCEPT ![h] = r.retryable]
              /\ slots' = r.slots
              /\ last' = Result("SetNumTries", handles[h].id, TRUE, newNumTries)
    /\ UNCHANGED <<calldataSto, timeoutQueue, used, crashed>>

\* retryable.SetTimeout(timeout) on a handle the caller holds
SetTimeoutAction(H) ==
    /\ ~crashed
    /\ UNCHANGED jitVars
    /\ \E h \in H, timeout \in SetTimeoutInputs :
        /\ handles[h] # NilHandle
        /\ LET r == SetTimeout(handles[h], slots, timeout)
           IN /\ handles' = [handles EXCEPT ![h] = r.retryable]
              /\ slots' = r.slots
              /\ last' = Result("SetTimeout", handles[h].id, TRUE, timeout)
    /\ UNCHANGED <<calldataSto, timeoutQueue, used, crashed>>

\* the registry's operations, every returned handle dropped at once
Next ==
    \/ CreateAction(Ids, {0})
    \/ OpenAction(Ids, {0})
    \/ SizeAction(Ids)
    \/ DeleteAction(Ids)
    \/ KeepaliveAction(Ids)
    \/ ReapAction

Spec == Init /\ [][Next]_vars

\* the registry operations that write storage or the queue
NextReap ==
    \/ CreateAction(Ids, {0})
    \/ DeleteAction(Ids)
    \/ KeepaliveAction(Ids)
    \/ ReapAction

\* these operations with reap steps that keep being taken: a
\* TryToReapOneRetryable call that can be made is eventually made
SpecReap == Init /\ [][NextReap]_vars /\ WF_vars(ReapAction)

\* the handles a caller may keep a returned pointer in, 0 for none
KeptIn == HandleSlots \cup {0}

\* the registry's operations and the operations on the handles it returned
NextHandles ==
    \/ CreateAction(HandleIds, KeptIn)
    \/ OpenAction(HandleIds, KeptIn)
    \/ DeleteAction(HandleIds)
    \/ KeepaliveAction(HandleIds)
    \/ ReapAction
    \/ IncrementAction(HandleSlots)
    \/ SetNumTriesAction(HandleSlots)
    \/ SetTimeoutAction(HandleSlots)

SpecHandles == Init /\ [][NextHandles]_vars

\* creation, opening, deletion and IncrementNumTries alone
NextTries ==
    \/ CreateAction(HandleIds, KeptIn)
    \/ OpenAction(HandleIds, KeptIn)
    \/ DeleteAction(HandleIds)
    \/ IncrementAction(HandleSlots)

SpecTries == Init /\ [][NextTries]_vars

\* every registry operation on every id, and every handle operation on a
\* handle that OpenRetryable returned
NextFrame ==
    \/ CreateAction(Ids, {0})
    \/ OpenAction(HandleIds, {1})
    \/ SizeAction(Ids)
    \/ DeleteAction(Ids)
    \/ KeepaliveAction(Ids)
    \/ ReapAction
    \/ IncrementAction({1})
    \/ SetNumTriesAction({1})
    \/ SetTimeoutAction({1})

SpecFrame == Init /\ [][NextFrame]_vars

\* a call of TxIdForRedeemAttempt; last records the ticket id, the try
\* sequence number and the id returned
RedeemAttemptAction ==
    /\ ~crashed
    /\ UNCHANGED jitVars
    /\ \E ticketId \in TicketIdInputs, trySequenceNum \in TrySequenceInputs :
        last' = [Result("TxIdForRedeemAttempt", ticketId, TRUE,
                        TxIdForRedeemAttempt(ticketId, trySequenceNum))
                 EXCEPT !.add = trySequenceNum]
    /\ UNCHANGED <<slots, calldataSto, timeoutQueue, used, handles, crashed>>

NextRedeem ==
    \/ RedeemAttemptAction

\* the pure function TxIdForRedeemAttempt applied to each of its inputs
SpecRedeem == Init /\ [][NextRedeem]_vars

\* ---------------------------------------------- the JIT host: its actions

\* the statuses the child process exits with
ExitStatuses == {0, 1}

\* the port the kernel gives the listener of session s
Port(s) == 40000 + s

\* fmt.Sprintf("%v\n", tcp.Addr().String())
AddressLine(s) == [text |-> "127.0.0.1:", port |-> Port(s), newline |-> "\n"]

\* []byte("\n")
ShutdownLine == [text |-> "", port |-> 0, newline |-> "\n"]

\* the frames a child sends back, whole and cut short
SuccessFrame(state) ==
    <<successByte>> \o UintToBytes(state.Batch) \o UintToBytes(state.PosInBatch)
    \o state.BlockHash \o state.SendRoot

FailureFrame(message) == <<failureByte>> \o UintToBytes(Len(message)) \o message

EndState == GoGlobalState(258, 1, HashOf(204), HashOf(221))

FailureMessage == <<98, 97, 100>>

Cut(frame, n) == SubSeq(frame, 1, n)

ResponseInputs ==
    { SuccessFrame(EndState),
      Cut(SuccessFrame(EndState), Len(SuccessFrame(EndState)) - 1),
      Cut(SuccessFrame(EndState), 1 + Uint64Bytes),
      FailureFrame(FailureMessage),
      Cut(FailureFrame(FailureMessage), Len(FailureFrame(FailureMessage)) - 1),
      Cut(FailureFrame(FailureMessage), 1),
      <<7>>,
      << >> }

\* the write end of the stdin pipe has a reader
StdinWritable == process.state \in {"spawned", "running"}

\* createJitMachine: the pipe is made, the goroutine that runs the process is
\* started, and the machine is returned; or StdinPipe fails
CreateJitMachineAction(C) ==
    /\ machine.made = "none"
    /\ \E cranelift \in C, pipe \in BOOLEAN :
        IF pipe
        THEN /\ machine' = [machine EXCEPT
                    !.made = "created",
                    !.invocation = <<"--binary", "binaryPath", "--forks">>
                        \o (IF cranelift THEN <<"--cranelift">> ELSE << >>)]
             /\ process' = [process EXCEPT !.state = "spawned"]
        ELSE /\ machine' = [machine EXCEPT !.made = "error"]
             /\ UNCHANGED process
    /\ UNCHANGED <<fatalErrChan, stdin, sess, childRead, peer>>
    /\ UNCHANGED retryableVars

\* the goroutine: process.Run() starts the process, or fails to and returns
\* the error, which is sent on fatalErrChan
RunStarts ==
    /\ process.state = "spawned"
    /\ \E started \in BOOLEAN :
        IF started
        THEN /\ process' = [process EXCEPT !.state = "running", !.starts = @ + 1]
             /\ UNCHANGED fatalErrChan
        ELSE /\ process' = [process EXCEPT !.state = "startFailed", !.returned = TRUE]
             /\ fatalErrChan' = Append(fatalErrChan, "lost jit block validator process")
    /\ UNCHANGED <<machine, stdin, sess, childRead, peer>>
    /\ UNCHANGED retryableVars

\* the child process exits by itself
ChildExits ==
    /\ process.state = "running"
    /\ \E status \in ExitStatuses :
        process' = [process EXCEPT !.state = "exited", !.status = status]
    /\ UNCHANGED <<machine, fatalErrChan, stdin, sess, childRead, peer>>
    /\ UNCHANGED retryableVars

\* the goroutine: process.Run() returns after the exit, with an error unless
\* the status is 0; only an error is sent on fatalErrChan
RunReturns ==
    /\ process.state = "exited"
    /\ ~process.returned
    /\ process' = [process EXCEPT !.returned = TRUE]
    /\ fatalErrChan' = IF process.status # 0
                       THEN Append(fatalErrChan, "lost jit block validator process")
                       ELSE fatalErrChan
    /\ UNCHANGED <<machine, stdin, sess, childRead, peer>>
    /\ UNCHANGED retryableVars

\* JitMachine.close: one newline written to stdin, a write error only logged
CloseAction ==
    /\ machine.made = "created"
    /\ ~machine.closed
    /\ machine' = [machine EXCEPT !.closed = TRUE]
    /\ stdin' = IF StdinWritable THEN Append(stdin, ShutdownLine) ELSE stdin
    /\ UNCHANGED <<process, fatalErrChan, sess, childRead, peer>>
    /\ UNCHANGED retryableVars

\* the child reads the next line of its stdin: on an address it connects to
\* it, on the empty line it exits
ChildReadsLine ==
    /\ process.state = "running"
    /\ childRead < Len(stdin)
    /\ childRead' = childRead + 1
    /\ LET line == stdin[childRead + 1]
       IN IF line = ShutdownLine
          THEN /\ \E status \in ExitStatuses :
                    process' = [process EXCEPT !.state = "exited", !.status = status]
               /\ UNCHANGED peer
          ELSE /\ peer' = [s \in Sessions |->
                             IF Port(s) = line.port /\ sess[s].tcp = "open"
                             THEN [peer[s] EXCEPT !.dialed = TRUE]
                             ELSE peer[s]]
               /\ UNCHANGED process
    /\ UNCHANGED <<machine, fatalErrChan, stdin, sess>>
    /\ UNCHANGED retryableVars

\* the child writes its response on a connection it made, and closes it
ChildResponds(S, R) ==
    /\ \E s \in S, resp \in R :
        /\ peer[s].dialed
        /\ ~peer[s].responded
        /\ peer' = [peer EXCEPT ![s] = [@ EXCEPT !.responded = TRUE, !.resp = resp]]
    /\ UNCHANGED <<machine, process, fatalErrChan, stdin, sess, childRead>>
    /\ UNCHANGED retryableVars

\* mutant: after an error prove starts over with a new listener
Return_Retry(locals, state, err) ==
    IF err.kind = "nil"
    THEN [locals EXCEPT !.pc = "returned", !.state = state, !.err = err, !.ctxDone = TRUE]
    ELSE [locals EXCEPT !.pc = "ListenTCP"]

\* a return of prove: the deferred cancel() closes ctx.Done()
Return(locals, state, err) ==
    [locals EXCEPT !.pc = "returned", !.state = state, !.err = err, !.ctxDone = TRUE]

\* the frame of a step of session s: nothing but its locals changes
OnlySession(s, locals) ==
    /\ sess' = [sess EXCEPT ![s] = locals]
    /\ UNCHANGED <<machine, process, fatalErrChan, stdin, childRead, peer>>
    /\ UNCHANGED retryableVars

\* prove is called: the ignore list is looked up, and the call either returns
\* the mapped state or goes on to bind a listener
ProveCall(S, E) ==
    /\ machine.made = "created"
    /\ \E s \in S, entry \in E :
        /\ sess[s].pc = "idle"
        /\ \A t \in S : t < s => sess[t].pc # "idle"
        /\ IF entry.Id \in DOMAIN ignoreProveBlocks
           THEN OnlySession(s, Return([sess[s] EXCEPT !.entry = entry],
                                      ignoreProveBlocks[entry.Id], NoError))
           ELSE \E order \in RangeOrders(entry) :
                   OnlySession(s, [sess[s] EXCEPT !.entry = entry,
                                                  !.order = order,
                                                  !.pc = "ListenTCP"])

\* net.ListenTCP
ListenTCP(S) ==
    \E s \in S, ok \in BOOLEAN :
        /\ sess[s].pc = "ListenTCP"
        /\ IF ok
           THEN OnlySession(s, [sess[s] EXCEPT !.tcp = "open", !.binds = @ + 1,
                                               !.pc = "SetDeadline"])
           ELSE OnlySession(s, Return(sess[s], sess[s].state, Err("ListenTCP")))

\* tcp.SetDeadline, and the go statement that follows it
SetDeadline(S) ==
    \E s \in S, ok \in BOOLEAN :
        /\ sess[s].pc = "SetDeadline"
        /\ IF ok
           THEN OnlySession(s, [sess[s] EXCEPT !.tcpCloser = "waiting",
                                               !.pc = "stdin.Write"])
           ELSE OnlySession(s, Return(sess[s], sess[s].state, Err("SetDeadline")))

\* machine.stdin.Write([]byte(address))
StdinWrite(S) ==
    \E s \in S, ok \in BOOLEAN :
        /\ sess[s].pc = "stdin.Write"
        /\ IF ok /\ StdinWritable
           THEN /\ stdin' = Append(stdin, AddressLine(s))
                /\ sess' = [sess EXCEPT ![s] =
                              [@ EXCEPT !.lines = Append(@, AddressLine(s)),
                                        !.pc = "Accept"]]
           ELSE /\ sess' = [sess EXCEPT ![s] =
                              Return(sess[s], sess[s].state, Err("stdin.Write"))]
                /\ UNCHANGED stdin
        /\ UNCHANGED <<machine, process, fatalErrChan, childRead, peer>>
        /\ UNCHANGED retryableVars

\* tcp.Accept, and the go statement that follows it: a connection the child
\* made to this listener is returned, or an error (the listener was closed,
\* the deadline passed)
Accept(S) ==
    \E s \in S, ok \in BOOLEAN :
        /\ sess[s].pc = "Accept"
        /\ IF ok
           THEN /\ sess[s].tcp = "open"
                /\ peer[s].dialed
                /\ OnlySession(s, [sess[s] EXCEPT !.conn = "open",
                                                  !.accepts = @ + 1,
                                                  !.connCloser = "waiting",
                                                  !.pc = "SetReadDeadline"])
           ELSE OnlySession(s, Return(sess[s], sess[s].state, Err("Accept")))

\* conn.SetReadDeadline
SetReadDeadline(S) ==
    \E s \in S, ok \in BOOLEAN :
        /\ sess[s].pc = "SetReadDeadline"
        /\ IF ok /\ sess[s].conn = "open"
           THEN OnlySession(s, [sess[s] EXCEPT !.pc = "SetWriteDeadline"])
           ELSE OnlySession(s, Return(sess[s], sess[s].state, Err("SetReadDeadline")))

\* conn.SetWriteDeadline
SetWriteDeadline(S) ==
    \E s \in S, ok \in BOOLEAN :
        /\ sess[s].pc = "SetWriteDeadline"
        /\ IF ok /\ sess[s].conn = "open"
           THEN OnlySession(s, [sess[s] EXCEPT !.pc = "writeExact"])
           ELSE OnlySession(s, Return(sess[s], sess[s].state, Err("SetWriteDeadline")))

\* mutant: the response is awaited before the last write of the request
WriteExact_ReadsEarly(S) ==
    \E s \in S, ok \in BOOLEAN :
        /\ sess[s].pc = "writeExact"
        /\ LET writes == RequestWrites(sess[s].entry, sess[s].order)
               next == Len(sess[s].sent) + 1
           IN IF ok /\ sess[s].conn = "open"
              THEN OnlySession(s, [sess[s] EXCEPT
                       !.sent = Append(@, writes[next]),
                       !.pc = IF next >= Len(writes) - 1 THEN "read kind" ELSE "writeExact"])
              ELSE OnlySession(s, Return(sess[s], sess[s].state, Err("conn.Write")))

\* the next writeExact call of the request: on a nil error prove goes on to
\* the next one, and after the last to the first read; on an error it returns
WriteExact(S) ==
    \E s \in S, ok \in BOOLEAN :
        /\ sess[s].pc = "writeExact"
        /\ LET writes == RequestWrites(sess[s].entry, sess[s].order)
               next == Len(sess[s].sent) + 1
           IN IF ok /\ sess[s].conn = "open"
              THEN OnlySession(s, [sess[s] EXCEPT
                       !.sent = Append(@, writes[next]),
                       !.pc = IF next = Len(writes) THEN "read kind" ELSE "writeExact"])
              ELSE OnlySession(s, Return(sess[s], sess[s].state, Err("conn.Write")))

\* io.ReadFull(conn, slice) with len(slice) = count: blocked while the child
\* has sent nothing and the connection is open
CanRead(s) == sess[s].conn = "closed" \/ peer[s].responded

ReadOk(s, count) ==
    /\ sess[s].conn = "open"
    /\ Len(peer[s].resp) - sess[s].rpos >= count

ReadData(s, count) == SubSeq(peer[s].resp, sess[s].rpos + 1, sess[s].rpos + count)

\* the count of the read prove is at
ReadCount(locals) ==
    CASE locals.pc = "read kind" -> 1
      [] locals.pc = "read length" -> Uint64Bytes
      [] locals.pc = "read message" -> locals.length
      [] locals.pc = "read Batch" -> Uint64Bytes
      [] locals.pc = "read PosInBatch" -> Uint64Bytes
      [] locals.pc = "read BlockHash" -> HashBytes
      [] locals.pc = "read SendRoot" -> HashBytes

ReadPcs ==
    {"read kind", "read length", "read message", "read Batch",
     "read PosInBatch", "read BlockHash", "read SendRoot"}

\* the locals after the read prove is at returned data
AfterRead(locals, data) ==
    LET read == [locals EXCEPT !.rpos = @ + Len(data)]
    IN CASE locals.pc = "read kind" ->
              IF data[1] = failureByte
              THEN [read EXCEPT !.kind = data[1], !.pc = "read length"]
              ELSE IF data[1] = successByte
              THEN [read EXCEPT !.kind = data[1], !.pc = "read Batch"]
              ELSE Return([read EXCEPT !.kind = data[1]], locals.state, IpcFailure)
         [] locals.pc = "read length" ->
              [read EXCEPT !.length = BigEndianUint64(data), !.pc = "read message"]
         [] locals.pc = "read message" ->
              Return(read, locals.state, ProverFailure(data))
         [] locals.pc = "read Batch" ->
              [read EXCEPT !.state.Batch = BigEndianUint64(data),
                           !.pc = "read PosInBatch"]
         [] locals.pc = "read PosInBatch" ->
              [read EXCEPT !.state.PosInBatch = BigEndianUint64(data),
                           !.pc = "read BlockHash"]
         [] locals.pc = "read BlockHash" ->
              [read EXCEPT !.state.BlockHash = data, !.pc = "read SendRoot"]
         [] locals.pc = "read SendRoot" ->
              Return(read, [locals.state EXCEPT !.SendRoot = data], NoError)

\* the locals after the read prove is at returned an error: the field being
\* assigned takes the zero value the reader returns with the error
AfterReadError(locals) ==
    LET state ==
          CASE locals.pc = "read Batch" -> [locals.state EXCEPT !.Batch = 0]
            [] locals.pc = "read PosInBatch" -> [locals.state EXCEPT !.PosInBatch = 0]
            [] locals.pc = "read BlockHash" -> [locals.state EXCEPT !.BlockHash = HashOf(0)]
            [] locals.pc = "read SendRoot" -> [locals.state EXCEPT !.SendRoot = HashOf(0)]
            [] OTHER -> locals.state
    IN Return(locals, state, Err("io.ReadFull"))

\* the next read of the response
Read(S) ==
    \E s \in S :
        /\ sess[s].pc \in ReadPcs
        /\ CanRead(s)
        /\ IF ReadOk(s, ReadCount(sess[s]))
           THEN OnlySession(s, AfterRead(sess[s], ReadData(s, ReadCount(sess[s]))))
           ELSE OnlySession(s, AfterReadError(sess[s]))

\* prove is in a call that cannot return yet: an accept with no connection
\* made, or a read with nothing sent by the child
Blocked(s) ==
    \/ sess[s].pc = "Accept" /\ sess[s].tcp = "open" /\ ~peer[s].dialed
    \/ sess[s].pc \in ReadPcs /\ ~CanRead(s)

\* the caller cancels ctxIn while prove runs
Cancel(S) ==
    \E s \in S :
        /\ sess[s].pc \notin {"idle", "returned"}
        /\ ~sess[s].ctxDone
        /\ OnlySession(s, [sess[s] EXCEPT !.ctxDone = TRUE,
                                          !.cancelledAt = sess[s].pc,
                                          !.cancelledBlocked = Blocked(s)])

\* the first goroutine: after ctx.Done(), tcp.Close()
CloseListener(S) ==
    \E s \in S :
        /\ sess[s].tcpCloser = "waiting"
        /\ sess[s].ctxDone
        /\ OnlySession(s, [sess[s] EXCEPT !.tcp = "closed", !.tcpCloser = "done"])

\* the second goroutine: after ctx.Done(), conn.Close()
CloseConn(S) ==
    \E s \in S :
        /\ sess[s].connCloser = "waiting"
        /\ sess[s].ctxDone
        /\ OnlySession(s, [sess[s] EXCEPT !.conn = "closed", !.connCloser = "done"])

\* one JitMachine and one call of prove, with every input
NextProve ==
    \/ CreateJitMachineAction({FALSE})
    \/ RunStarts
    \/ ChildReadsLine
    \/ ChildResponds({1}, ResponseInputs)
    \/ ProveCall({1}, EntryInputs)
    \/ ListenTCP({1})
    \/ SetDeadline({1})
    \/ StdinWrite({1})
    \/ Accept({1})
    \/ SetReadDeadline({1})
    \/ SetWriteDeadline({1})
    \/ WriteExact({1})
    \/ Read({1})
    \/ Cancel({1})
    \/ CloseListener({1})
    \/ CloseConn({1})

SpecProve == InitJit /\ [][NextProve]_vars

\* one JitMachine from its creation to the exit of its process, with close
\* and one call of prove with the smallest request
NextMachine ==
    \/ CreateJitMachineAction(BOOLEAN)
    \/ RunStarts
    \/ ChildExits
    \/ RunReturns
    \/ CloseAction
    \/ ChildReadsLine
    \/ ChildResponds({1}, {SuccessFrame(EndState)})
    \/ ProveCall({1}, PlainEntries)
    \/ ListenTCP({1})
    \/ SetDeadline({1})
    \/ StdinWrite({1})
    \/ Accept({1})
    \/ SetReadDeadline({1})
    \/ SetWriteDeadline({1})
    \/ WriteExact({1})
    \/ Read({1})
    \/ CloseListener({1})
    \/ CloseConn({1})

SpecMachine == InitJit /\ [][NextMachine]_vars

\* the calls of prove that callers make on one JitMachine at the same time,
\* each with the smallest request
NextSessions ==
    \/ CreateJitMachineAction({FALSE})
    \/ RunStarts
    \/ ChildReadsLine
    \/ ChildResponds(Sessions, {SuccessFrame(EndState)})
    \/ ProveCall(Sessions, PlainEntries)
    \/ ListenTCP(Sessions)
    \/ SetDeadline(Sessions)
    \/ StdinWrite(Sessions)
    \/ Accept(Sessions)
    \/ SetReadDeadline(Sessions)
    \/ SetWriteDeadline(Sessions)
    \/ WriteExact(Sessions)
    \/ Read(Sessions)
    \/ CloseListener(Sessions)
    \/ CloseConn(Sessions)

SpecSessions == InitJit /\ [][NextSessions]_vars

\* ------------------------------------------------------------------ claims

InQueue(id) == \E i \in 1 .. Len(timeoutQueue) : timeoutQueue[i] = id

\* C1: after any sequence of registry operations and of operations on handles
\* previously returned, every id whose stored timeout slot is non-zero occurs
\* in the timeout queue (stated for the states between completed calls)
C1_LiveIdsAreQueued ==
    ~crashed => \A id \in Ids : slots[id][timeoutOffset] # 0 => InQueue(id)

\* C2: while a retryable is live, no step of IncrementNumTries, through any
\* handle, lowers the num_tries held in storage
C2_NumTriesNeverDecreases ==
    [][\A id \in Ids :
         (slots[id][timeoutOffset] # 0 /\ slots'[id][timeoutOffset] # 0)
             => slots'[id][numTriesOffset] >= slots[id][numTriesOffset]]_vars

\* C3: for every input with timeout > 0, right after CreateRetryable the call
\* has returned, OpenRetryable(id) is present, the fields it reads from storage
\* are the created values with num_tries 0, and Equals(created, opened) is true
C3_CreateThenOpenRoundTrips ==
    [][\A id \in Ids \ used, now \in Nows, timeout \in TimeoutInputs, from \in FromInputs,
          to \in ToInputs, callvalue \in CallvalueInputs,
          beneficiary \in BeneficiaryInputs, calldata \in CalldataInputs :
         (~crashed /\ CreateCall(now, id, timeout, from, to, callvalue, beneficiary,
                                 calldata, 0))
             => \A now2 \in Nows :
                  LET opened == OpenRetryable(slots', id, now2)
                      created == CachedHandle(id, timeout, from, to, callvalue,
                                              beneficiary, calldata)
                  IN /\ ~crashed'
                     /\ opened # NilHandle
                     /\ NumTries(opened, slots') = 0
                     /\ Timeout(opened, slots') = timeout
                     /\ From(opened, slots') = from
                     /\ To(opened, slots') = to
                     /\ Callvalue(opened, slots') = callvalue
                     /\ Beneficiary(opened, slots') = beneficiary
                     /\ Calldata(opened, calldataSto') = calldata
                     /\ Equals(created, opened, slots', calldataSto')]_vars

\* C4: Keepalive(id, now, L, D) with stored timeout T: absent (T = 0) returns
\* false and changes no storage; T <= L returns true and stores T + D; T > L
\* returns false and leaves T; whatever now is
C4_KeepaliveSemantics ==
    [][last'.op = "Keepalive" =>
         LET id == last'.id
             T == slots[id][timeoutOffset]
         IN IF T = 0
            THEN ~last'.ok /\ slots' = slots /\ calldataSto' = calldataSto
            ELSE IF T <= last'.lim
                 THEN last'.ok /\ slots'[id][timeoutOffset] = T + last'.add
                 ELSE ~last'.ok /\ slots'[id][timeoutOffset] = T]_vars

\* C5: RetryableSizeBytes(id, now) is 0 exactly when OpenRetryable(id, now) is
\* absent and otherwise 192 plus the length of the calldata stored for id
C5_SizeBytes ==
    /\ \A id \in Ids, now \in Nows :
         LET size == RetryableSizeBytes(slots, calldataSto, id, now)
         IN /\ (size = 0) <=> (slots[id][timeoutOffset] = 0)
            /\ size # 0 => size = 192 + Len(calldataSto[id])
    /\ last.op = "RetryableSizeBytes" =>
         last.val = IF slots[last.id][timeoutOffset] = 0
                    THEN 0
                    ELSE 192 + Len(calldataSto[last.id])

C5_Witness ==
    /\ last.op = "RetryableSizeBytes"
    /\ last.val = 195
    /\ calldataSto[last.id] = <<170, 187, 204>>

C7_DeleteRetryable ==
    [][last'.op = "DeleteRetryable" =>
         LET id == last'.id
         IN /\ timeoutQueue' = timeoutQueue
            /\ \A other \in Ids \ {id} :
                 slots'[other] = slots[other] /\ calldataSto'[other] = calldataSto[other]
            /\ IF slots[id][timeoutOffset] # 0
               THEN /\ last'.ok
                    /\ \A o \in Offsets : slots'[id][o] = 0
                    /\ calldataSto'[id] = << >>
                    /\ ~DeleteRetryable(slots', calldataSto', id).ok
                    /\ \A now \in Nows : OpenRetryable(slots', id, now) = NilHandle
               ELSE /\ ~last'.ok
                    /\ slots' = slots
                    /\ calldataSto' = calldataSto]_vars

C7_Witness ==
    /\ last.op = "DeleteRetryable"
    /\ last.ok
    /\ InQueue(last.id)

\* C8: one TryToReapOneRetryable does one step: nothing on an empty queue;
\* otherwise the head is removed and appended at the tail if present in
\* storage, dropped if absent; the other entries keep their order
C8_ReapOneStep ==
    [][last'.op = "TryToReapOneRetryable" =>
         /\ slots' = slots
         /\ calldataSto' = calldataSto
         /\ IF timeoutQueue = << >>
            THEN timeoutQueue' = << >>
            ELSE IF slots[Head(timeoutQueue)][timeoutOffset] # 0
                 THEN /\ Len(timeoutQueue') = Len(timeoutQueue)
                      /\ timeoutQueue' = Tail(timeoutQueue) \o <<Head(timeoutQueue)>>
                 ELSE /\ Len(timeoutQueue') = Len(timeoutQueue) - 1
                      /\ timeoutQueue' = Tail(timeoutQueue)]_vars

C8_Witness ==
    /\ last.op = "TryToReapOneRetryable"
    /\ last.id # 0
    /\ ~last.ok
    /\ timeoutQueue # << >>

C10_QueueHasNoDuplicates ==
    \A i, j \in 1 .. Len(timeoutQueue) : i # j => timeoutQueue[i] # timeoutQueue[j]

C10_Witness ==
    /\ last.op = "TryToReapOneRetryable"
    /\ last.ok
    /\ Len(timeoutQueue) >= 2

\* the stored fields of a retryable that no operation but its creation and
\* its deletion writes
StoredFields(id) ==
    <<slots[id][fromOffset], slots[id][toOffset], slots[id][callvalueOffset],
      slots[id][beneficiaryOffset], calldataSto[id]>>

\* C11: no step other than the CreateRetryable and the DeleteRetryable of an
\* id (Keepalive, SetTimeout, IncrementNumTries, SetNumTries,
\* TryToReapOneRetryable, OpenRetryable, RetryableSizeBytes, any operation on
\* another id) changes the stored from, to, callvalue, beneficiary or calldata
\* of that id
C11_FieldsAreFramed ==
    [][\A id \in Ids :
          (/\ id \in used
           /\ ~(last'.op = "DeleteRetryable" /\ last'.id = id))
          => StoredFields(id)' = StoredFields(id)]_vars

C11_Witness ==
    /\ last.op \in {"SetNumTries", "SetTimeout", "IncrementNumTries"}
    /\ last.id = 1
    /\ slots[1][callvalueOffset] # 0
    /\ calldataSto[1] # << >>
    /\ slots[2][fromOffset] # 0

\* the session is between its address write to the child's stdin and the
\* return of its accept
InHandoff(s) == sess[s].pc = "Accept"

\* C12: at no time are two sessions of one JitMachine both between their
\* address write to the child's stdin and their accept
C12_ProveCallsNeverOverlap ==
    \A s, t \in Sessions : s # t => ~(InHandoff(s) /\ InHandoff(t))

\* prove has issued every write of the request
RequestSent(s) ==
    \/ sess[s].pc \in ReadPcs
    \/ /\ sess[s].pc = "returned"
       /\ sess[s].entry.Id \notin {4083577, 4083578}
       /\ sess[s].err.kind \in {"nil", "io.ReadFull", "errors.New"}

\* what the child reads at position p of the bytes b it received: a uint64, a
\* run of count bytes, a length-prefixed bytes field
HasBytes(b, p, count) == p + count - 1 <= Len(b)

BytesAt(b, p, count) == SubSeq(b, p, p + count - 1)

Uint64At(b, p) == BigEndianUint64(BytesAt(b, p, Uint64Bytes))

\* the entries of an inbox as the child reads them from position p: 0x03,
\* number, length-prefixed data, repeated until 0x00
RECURSIVE ChildReadsInbox(_, _)
ChildReadsInbox(b, p) ==
    IF ~HasBytes(b, p, 1) THEN [ok |-> FALSE, items |-> << >>, pos |-> p]
    ELSE IF b[p] = successByte THEN [ok |-> TRUE, items |-> << >>, pos |-> p + 1]
    ELSE IF b[p] # anotherByte \/ ~HasBytes(b, p + 1, 2 * Uint64Bytes)
    THEN [ok |-> FALSE, items |-> << >>, pos |-> p]
    ELSE LET number == Uint64At(b, p + 1)
             length == Uint64At(b, p + 1 + Uint64Bytes)
             from == p + 1 + 2 * Uint64Bytes
         IN IF ~HasBytes(b, from, length)
            THEN [ok |-> FALSE, items |-> << >>, pos |-> p]
            ELSE LET rest == ChildReadsInbox(b, from + length)
                 IN [ok |-> rest.ok,
                     items |-> <<[Number |-> number,
                                  Data |-> BytesAt(b, from, length)]>> \o rest.items,
                     pos |-> rest.pos]

\* count pairs of hash and length-prefixed preimage read from position p
RECURSIVE ChildReadsPairs(_, _, _)
ChildReadsPairs(b, p, count) ==
    IF count = 0 THEN [ok |-> TRUE, pairs |-> << >>, pos |-> p]
    ELSE IF ~HasBytes(b, p, HashBytes + Uint64Bytes)
    THEN [ok |-> FALSE, pairs |-> << >>, pos |-> p]
    ELSE LET length == Uint64At(b, p + HashBytes)
             from == p + HashBytes + Uint64Bytes
         IN IF ~HasBytes(b, from, length)
            THEN [ok |-> FALSE, pairs |-> << >>, pos |-> p]
            ELSE LET rest == ChildReadsPairs(b, from + length, count - 1)
                 IN [ok |-> rest.ok,
                     pairs |-> <<[hash |-> BytesAt(b, p, HashBytes),
                                  preimage |-> BytesAt(b, from, length)]>> \o rest.pairs,
                     pos |-> rest.pos]

\* count kinds read from position p: kind byte, entry count, the pairs
RECURSIVE ChildReadsKinds(_, _, _)
ChildReadsKinds(b, p, count) ==
    IF count = 0 THEN [ok |-> TRUE, kinds |-> << >>, pos |-> p]
    ELSE IF ~HasBytes(b, p, 1 + Uint64Bytes)
    THEN [ok |-> FALSE, kinds |-> << >>, pos |-> p]
    ELSE LET pairs == ChildReadsPairs(b, p + 1 + Uint64Bytes, Uint64At(b, p + 1))
         IN IF ~pairs.ok THEN [ok |-> FALSE, kinds |-> << >>, pos |-> p]
            ELSE LET rest == ChildReadsKinds(b, pairs.pos, count - 1)
                 IN [ok |-> rest.ok,
                     kinds |-> <<[ty |-> b[p], pairs |-> pairs.pairs]>> \o rest.kinds,
                     pos |-> rest.pos]

\* the kinds read are those of the map, each once, and under each kind the
\* hashes read are those of the map, each once and with its preimage
SameAsMap(kinds, preimageTypes) ==
    /\ Len(kinds) = Cardinality(DOMAIN preimageTypes)
    /\ {kinds[i].ty : i \in 1 .. Len(kinds)} = DOMAIN preimageTypes
    /\ \A i \in 1 .. Len(kinds) :
        LET pairs == kinds[i].pairs
            preimages == preimageTypes[kinds[i].ty]
        IN /\ Len(pairs) = Cardinality(DOMAIN preimages)
           /\ {pairs[j].hash : j \in 1 .. Len(pairs)} = DOMAIN preimages
           /\ \A j \in 1 .. Len(pairs) : pairs[j].preimage = preimages[pairs[j].hash]

\* the bytes b read as a request are exactly the request of entry
IsRequestOf(b, entry) ==
    LET start == 2 * Uint64Bytes + 2 * HashBytes
    IN /\ HasBytes(b, 1, start)
       /\ Uint64At(b, 1) = entry.StartState.Batch
       /\ Uint64At(b, 1 + Uint64Bytes) = entry.StartState.PosInBatch
       /\ BytesAt(b, 1 + 2 * Uint64Bytes, HashBytes) = entry.StartState.BlockHash
       /\ BytesAt(b, 1 + 2 * Uint64Bytes + HashBytes, HashBytes) = entry.StartState.SendRoot
       /\ LET inbox == ChildReadsInbox(b, start + 1)
          IN /\ inbox.ok
             /\ inbox.items = entry.BatchInfo
             /\ LET delayed == ChildReadsInbox(b, inbox.pos)
                IN /\ delayed.ok
                   /\ delayed.items =
                        IF entry.HasDelayedMsg
                        THEN <<[Number |-> entry.DelayedMsgNr, Data |-> entry.DelayedMsg]>>
                        ELSE << >>
                   /\ HasBytes(b, delayed.pos, Uint64Bytes)
                   /\ LET kinds == ChildReadsKinds(b, delayed.pos + Uint64Bytes,
                                                   Uint64At(b, delayed.pos))
                      IN /\ kinds.ok
                         /\ SameAsMap(kinds.kinds, entry.Preimages)
                         /\ kinds.pos = Len(b)
                         /\ b[Len(b)] = readyByte

\* C13: once prove has issued every write of the request of an input that is
\* not on the ignore list, the bytes it wrote are, in this order: the start
\* state; per batch_info entry in sequence order 0x03, number, length-prefixed
\* data; 0x00; if has_delayed_msg 0x03, delayed_msg_nr, length-prefixed
\* delayed_msg; 0x00; the number of preimage kinds; per kind its byte, its
\* entry count and that many hash/length-prefixed-preimage pairs, each kind
\* and each hash once; and one 0x04 as the last byte
C13_RequestBytes ==
    \A s \in Sessions :
        RequestSent(s) => IsRequestOf(Flatten(sess[s].sent), sess[s].entry)

C13_Witness ==
    /\ RequestSent(1)
    /\ Len(sess[1].entry.BatchInfo) = 2
    /\ sess[1].entry.HasDelayedMsg
    /\ sess[1].entry.Preimages = TwoKinds
    /\ sess[1].order.kinds = <<1, 0>>

\* the lengths of the frames of the response
SuccessFrameLen == 1 + 2 * Uint64Bytes + 2 * HashBytes

FailureHeaderLen == 1 + Uint64Bytes

\* resp holds a whole failure frame: a lead byte, a length, and that many bytes
HoldsFailureFrame(resp) ==
    /\ Len(resp) >= FailureHeaderLen
    /\ resp[1] = failureByte
    /\ \E n \in 0 .. Len(resp) - FailureHeaderLen :
          UintToBytes(n) = BytesAt(resp, 2, Uint64Bytes)

\* resp holds a whole success frame
HoldsSuccessFrame(resp) == Len(resp) >= SuccessFrameLen /\ resp[1] = successByte

\* prove has returned after sending the whole request, and ctxIn was not
\* cancelled
ResponseRead(s) ==
    /\ RequestSent(s)
    /\ sess[s].pc = "returned"
    /\ sess[s].cancelledAt = ""

\* C14: after the request is sent prove reads one lead byte and ends in
\* exactly one of three ways: on 0x00 it returns, without error, the
\* GlobalState made of the batch, pos_in_batch, block_hash and send_root that
\* follow; on 0x01 an error whose message is the length-prefixed message the
\* child sent; on any other byte the error "inter-process communication
\* failure"; a frame cut short in any of these gives a read error
C14_ResponseOutcome ==
    \A s \in Sessions :
        ResponseRead(s) =>
            LET resp == peer[s].resp
                err == sess[s].err
            IN /\ err.kind \in {"nil", "errors.New", "io.ReadFull"}
               /\ err = NoError <=> HoldsSuccessFrame(resp)
               /\ err = NoError =>
                    /\ Cut(resp, SuccessFrameLen) = SuccessFrame(sess[s].state)
                    /\ sess[s].rpos = SuccessFrameLen
               /\ (err.kind = "errors.New" /\ err.text = "") <=> HoldsFailureFrame(resp)
               /\ (err.kind = "errors.New" /\ err.text = "") =>
                    /\ Cut(resp, FailureHeaderLen + Len(err.message)) = FailureFrame(err.message)
                    /\ sess[s].rpos = FailureHeaderLen + Len(err.message)
               /\ err = IpcFailure <=>
                    (Len(resp) >= 1 /\ resp[1] \notin {successByte, failureByte})
               /\ err = IpcFailure => sess[s].rpos = 1
               /\ err.kind = "io.ReadFull" <=>
                    \/ resp = << >>
                    \/ resp[1] = successByte /\ ~HoldsSuccessFrame(resp)
                    \/ resp[1] = failureByte /\ ~HoldsFailureFrame(resp)

C14_Witness ==
    /\ ResponseRead(1)
    /\ sess[1].err = NoError
    /\ sess[1].state = EndState
    /\ peer[1].resp = SuccessFrame(EndState)

\* what the ignore list maps the ids of the inputs to
IgnoredState(id) ==
    IF id = 4083577 THEN GoGlobalState(9178, 480, HashOf(218), HashOf(115))
    ELSE GoGlobalState(9178, 481, HashOf(70), HashOf(115))

\* C15: for an input whose id is a key of the ignore list prove returns the
\* mapped GlobalState with no error, and binds no listener, writes nothing to
\* the child's stdin, accepts nothing and reads and writes nothing on a socket
C15_IgnoredInput ==
    \A s \in Sessions :
        (sess[s].pc # "idle" /\ sess[s].entry.Id \in {4083577, 4083578}) =>
            /\ sess[s].pc = "returned"
            /\ sess[s].state = IgnoredState(sess[s].entry.Id)
            /\ sess[s].err = NoError
            /\ sess[s].binds = 0 /\ sess[s].tcp = "none"
            /\ sess[s].lines = << >>
            /\ \A i \in 1 .. Len(stdin) : stdin[i] # AddressLine(s)
            /\ sess[s].accepts = 0 /\ sess[s].conn = "none"
            /\ sess[s].sent = << >>
            /\ sess[s].rpos = 0

C15_Witness ==
    /\ sess[1].pc = "returned"
    /\ sess[1].entry.Id = 4083577
    /\ sess[1].entry.Preimages = TwoKinds
    /\ process.state = "running"

\* C16: a prove whose scope was cancelled while it was blocked in accept or
\* in a read of the response returns an error
C16_CancelledProveReturnsError ==
    \A s \in Sessions :
        (/\ sess[s].pc = "returned"
         /\ sess[s].cancelledBlocked
         /\ sess[s].cancelledAt \in {"Accept"} \cup ReadPcs)
        => sess[s].err # NoError

\* C17: once prove has returned, a listener it bound is closed or is about to
\* be closed by the goroutine started for it, and so is a connection it
\* accepted
C17_ReturnedProveClosesSockets ==
    \A s \in Sessions :
        sess[s].pc = "returned" =>
            /\ sess[s].tcp = "open" => sess[s].tcpCloser = "waiting"
            /\ sess[s].conn = "open" => sess[s].connCloser = "waiting"

\* C18: once the child process has exited and process.Run has returned, an
\* error has been sent on fatalErrChan, whatever the exit status and also
\* after the newline of close; and the process is started at most once
C18_ChildExitIsPublished ==
    /\ (process.state = "exited" /\ process.returned) => fatalErrChan # << >>
    /\ process.starts <= 1

\* C19: if the prover process cannot be started, createJitMachine has
\* returned an error and no JitMachine
C19_StartFailureFailsCreate ==
    process.state = "startFailed" => machine.made = "error"

\* the errors a step of prove at pc can return
ErrorsAt(pc) ==
    IF pc \in ReadPcs THEN {"io.ReadFull", "errors.New"}
    ELSE IF pc = "writeExact" THEN {"conn.Write"}
    ELSE {pc}

\* C20: within one prove call nothing is retried: at most one listener is
\* bound, at most one line is written to the child's stdin and it is the
\* listener address, not the shutdown newline, at most one connection is
\* accepted, and the first error of a step ends the call and is what the call
\* returns, unchanged from then on
C20_NothingIsRetried ==
    /\ [](\A s \in Sessions :
            /\ sess[s].binds <= 1
            /\ sess[s].accepts <= 1
            /\ Len(sess[s].lines) <= 1
            /\ \A i \in 1 .. Len(sess[s].lines) :
                  /\ sess[s].lines[i] = AddressLine(s)
                  /\ sess[s].lines[i] # ShutdownLine
            /\ sess[s].err # NoError => sess[s].pc = "returned")
    /\ [][\A s \in Sessions :
            /\ (sess[s].err = NoError /\ sess'[s].err # NoError) =>
                  /\ sess'[s].pc = "returned"
                  /\ sess'[s].err.kind \in ErrorsAt(sess[s].pc)
            /\ sess[s].pc = "returned" =>
                  /\ sess'[s].pc = "returned"
                  /\ sess'[s].err = sess[s].err
                  /\ sess'[s].state = sess[s].state
                  /\ sess'[s].binds = sess[s].binds
                  /\ sess'[s].lines = sess[s].lines
                  /\ sess'[s].accepts = sess[s].accepts]_vars

C20_Witness ==
    /\ sess[1].pc = "returned"
    /\ sess[1].err.kind = "conn.Write"
    /\ sess[1].binds = 1
    /\ Len(sess[1].lines) = 1
    /\ sess[1].accepts = 1
    /\ sess[1].tcp = "closed"
    /\ sess[1].conn = "closed"

\* C21: a CreateRetryable call completes, and To() on the handle it returns and
\* on every handle OpenRetryable(id) gives afterwards reports the `to` that was
\* passed: no address when none was passed, the address a when a was passed.
C21_ToSurvivesStorage ==
    [][\A id \in Ids \ used, now \in Nows, timeout \in TimeoutInputs,
          from \in FromInputs, to \in ToInputs, callvalue \in CallvalueInputs,
          beneficiary \in BeneficiaryInputs, calldata \in CalldataInputs :
          CreateCall(now, id, timeout, from, to, callvalue, beneficiary, calldata, 0) =>
             /\ ~crashed'
             /\ To(CachedHandle(id, timeout, from, to, callvalue, beneficiary, calldata),
                   slots') = to
             /\ \A now2 \in Nows :
                   /\ OpenRetryable(slots', id, now2) # NilHandle
                   /\ To(OpenRetryable(slots', id, now2), slots') = to]_vars

C23_RedeemPreimage ==
    last.op = "TxIdForRedeemAttempt" =>
       LET fed == last.val.keccak256
       IN /\ Len(fed) = HashBytes + 1 + Uint64Bytes
          /\ \A i \in 1 .. HashBytes : fed[i] = last.id[i]
          /\ fed[HashBytes + 1] = 0
          /\ last.add < 256 ^ Uint64Bytes
          /\ \A i \in 1 .. Uint64Bytes :
                fed[HashBytes + 1 + i] = (last.add \div (256 ^ (i - 1))) % 256
          /\ \A ticketId \in TicketIdInputs, trySequenceNum \in TrySequenceInputs :
                /\ <<ticketId, trySequenceNum>> # <<last.id, last.add>> =>
                      TxIdForRedeemAttempt(ticketId, trySequenceNum) # last.val
                /\ <<ticketId, trySequenceNum>> = <<last.id, last.add>> =>
                      TxIdForRedeemAttempt(ticketId, trySequenceNum) = last.val

C23_Witness ==
    /\ last.op = "TxIdForRedeemAttempt"
    /\ last.id = <<1, 0>> \o [i \in 1 .. HashBytes - 2 |-> 0]
    /\ last.add = 1 + 255 * Pow256(Uint64Bytes - 1)

\* C24: once a connection was accepted, the cleanup after the scope of the
\* prove call ended closes the listener before it closes the connection: the
\* connection is never closed while the listener is still open.
C24_ListenerClosesFirst ==
    \A s \in DOMAIN sess :
        (sess[s].accepts > 0 /\ sess[s].conn = "closed") => sess[s].tcp = "closed"

\* C28: a prove call that returned an error returned the all-zero GlobalState,
\* also when a success frame broke off after some of its fields were read.
C28_ErrorReturnsZeroState ==
    \A s \in DOMAIN sess :
        (sess[s].pc = "returned" /\ sess[s].err # NoError) =>
            sess[s].state = ZeroGlobalState

\* C29: whenever prove writes an address line to the child's stdin, the
\* listener the line names is open and the caller's scope is not cancelled.
C29_AddressNamesOpenListener ==
    [][\A s \in DOMAIN sess :
          (s \in DOMAIN sess' /\ Len(sess'[s].lines) > Len(sess[s].lines)) =>
              /\ sess[s].tcp = "open"
              /\ ~sess[s].ctxDone]_vars

\* C30: an id whose timeout slot is zero has its five other scalar slots zero
\* and no stored calldata, whatever registry operations and operations on
\* handles (IncrementNumTries, SetNumTries, SetTimeout) were called.
C30_AbsentIdsAreBlank ==
    \A id \in Ids :
        slots[id][timeoutOffset] = 0 =>
            /\ \A offset \in {numTriesOffset, fromOffset, toOffset, callvalueOffset,
                              beneficiaryOffset} : slots[id][offset] = 0
            /\ calldataSto[id] = << >>

Deleted(id) == id \in used /\ slots[id][timeoutOffset] = 0

\* C26: while reap steps keep being taken, the id of a deleted retryable
\* leaves the timeout queue and, once out, never enters it again; each reap
\* step that leaves it in the queue moves it one place towards the head and
\* the step that finds it at the head drops it, so a queue of n entries needs
\* at most n reap steps.
C26_DeletedIdsLeaveTheQueue ==
    /\ \A id \in Ids : (Deleted(id) /\ InQueue(id)) ~> (~InQueue(id) \/ crashed)
    /\ [][\A id \in Ids : (Deleted(id) /\ ~InQueue(id)) =>
             (Deleted(id) /\ ~InQueue(id))']_vars
    /\ [][last'.op = "TryToReapOneRetryable" =>
             \A id \in Ids, k \in 1 .. Len(timeoutQueue) :
                (Deleted(id) /\ timeoutQueue[k] = id) =>
                   IF k = 1
                   THEN ~InQueue(id)'
                   ELSE /\ k - 1 <= Len(timeoutQueue')
                        /\ timeoutQueue'[k - 1] = id]_vars

C26_Witness ==
    /\ last.op = "TryToReapOneRetryable"
    /\ ~last.ok
    /\ last.id \in Ids
    /\ Deleted(last.id)
    /\ ~InQueue(last.id)
    /\ timeoutQueue # << >>

\* the phase of a prove call: listen, address handoff, accept, send, await
\* response, terminal
PhaseOf(pc) ==
    CASE pc = "idle" -> 0
      [] pc \in {"ListenTCP", "SetDeadline"} -> 1
      [] pc = "stdin.Write" -> 2
      [] pc \in {"Accept", "SetReadDeadline", "SetWriteDeadline"} -> 3
      [] pc = "writeExact" -> 4
      [] pc \in ReadPcs -> 5
      [] pc = "returned" -> 6

\* C27: a prove call goes through its phases in the order listen, address
\* handoff, accept, send, await response, terminal, never back and never
\* skipping one except to end; the address is written only after the listener
\* was bound, request bytes only after accept returned, and response bytes are
\* read only after the whole request, ending in the ready byte, was written.
C27_PhasesInOrder ==
    /\ [](\A s \in DOMAIN sess :
            /\ Len(sess[s].lines) > 0 => sess[s].binds > 0
            /\ Len(sess[s].sent) > 0 => (sess[s].accepts > 0 /\ Len(sess[s].lines) > 0)
            /\ sess[s].rpos > 0 =>
                  /\ sess[s].sent = RequestWrites(sess[s].entry, sess[s].order)
                  /\ Flatten(sess[s].sent)[Len(Flatten(sess[s].sent))] = readyByte)
    /\ [][\A s \in DOMAIN sess :
            /\ PhaseOf(sess'[s].pc) >= PhaseOf(sess[s].pc)
            /\ sess'[s].pc # "returned" => PhaseOf(sess'[s].pc) <= PhaseOf(sess[s].pc) + 1
            /\ Len(sess'[s].lines) > Len(sess[s].lines) =>
                  (sess[s].binds > 0 /\ PhaseOf(sess[s].pc) = 2)
            /\ Len(sess'[s].sent) > Len(sess[s].sent) =>
                  (sess[s].accepts > 0 /\ PhaseOf(sess[s].pc) = 4)
            /\ sess'[s].rpos > sess[s].rpos =>
                  /\ PhaseOf(sess[s].pc) = 5
                  /\ sess[s].sent = RequestWrites(sess[s].entry, sess[s].order)]_vars

C27_Witness ==
    /\ sess[1].pc = "writeExact"
    /\ peer[1].responded
    /\ peer[1].resp = SuccessFrame(EndState)
    /\ Len(sess[1].sent) = Len(RequestWrites(sess[1].entry, sess[1].order)) - 1
    /\ sess[1].rpos = 0

\* C31: a Keepalive that returns true leaves a stored timeout that is not zero
\* and not smaller than the one it found, whatever the limit and the addend.
C31_KeepaliveNeverLowers ==
    [][(last'.op = "Keepalive" /\ last'.ok /\ slots[last'.id][timeoutOffset] > 0) =>
          /\ slots'[last'.id][timeoutOffset] >= slots[last'.id][timeoutOffset]
          /\ slots'[last'.id][timeoutOffset] # 0
          /\ \A now \in Nows : OpenRetryable(slots', last'.id, now) # NilHandle]_vars

====
